---- MODULE Spec2Model ----
(***************************************************************************)
(* Model of ChatStatistics::gather (src/src/main.rs): the partition /      *)
(* tokenize / aggregate / merge pipeline that turns the messages of a chat *)
(* into a global token map and a per-member token map.                     *)
(*                                                                         *)
(* A text is a sequence of grapheme clusters (one-element strings; an      *)
(* emoji is one cluster).  A token is such a sequence too.  A HashMap is a *)
(* function with a finite domain.  An Option is a set with at most one     *)
(* element ({} is None).  Counts stay far below usize::MAX, so the         *)
(* additions are modelled without wrap-around.                             *)
(***************************************************************************)
EXTENDS Integers, Sequences, FiniteSets, TLC

\* ------------------------------------------------------------------ bounds
\* Longest chat.messages explored.
MaxLen == 4
\* Largest value of the --jobs argument explored (0 is included).
MaxJobs == 2

\* ------------------------------------------------------- Option / HashMap
None == {}

Some(x) == {x}

is_none(opt) == opt = {}

\* Option::unwrap on a Some value.
unwrap(opt) == CHOOSE x \in opt : TRUE

\* HashMap::new()
EmptyMap == [k \in {} |-> 0]

\* *map.get(&k).unwrap_or(&0)
GetOr0(map, k) == IF k \in DOMAIN map THEN map[k] ELSE 0

\* map.insert(k, v)
Insert(map, k, v) == [x \in (DOMAIN map) \cup {k} |-> IF x = k THEN v ELSE map[x]]

\* ------------------------------------------------------------- input data
\* The characters of the split pattern of gather.
Separators == {" ", ",", ".", "(", ")", "'", "\"", "\n", "\t"}

\* Grapheme clusters for which emojis::get returns Some.
Emojis == {"EMOJI_GRIN"}

MessageTypes == {"service", "message"}

\* The text entity kinds the specification calls "meta".
MetaEntityTypes == {"phone", "bot_command", "email", "custom_emoji", "mention"}

Entity(type, text) == [_type |-> type, text |-> text]

Msg(type, from, entities) == [_type |-> type, from |-> from, text_entities |-> entities]

\* The messages chats are built from: the fields gather reads.
MessagePool ==
    { Msg("message", Some("A"), << Entity("plain", <<"a", " ", "b">>) >>),
      Msg("message", Some("B"), << Entity("bold", <<"b">>), Entity("phone", <<"c">>) >>),
      Msg("message", None,      << Entity("plain", <<"a">>) >>),
      Msg("service", None,      << Entity("plain", <<"a">>) >>),
      Msg("message", Some("A"), << Entity("plain", <<"EMOJI_GRIN", " ", "a", "-", "b">>) >>),
      Msg("message", Some("B"), << Entity("plain", <<",", " ">>) >>) }

RECURSIVE SeqsUpTo(_, _)
SeqsUpTo(S, n) ==
    IF n = 0 THEN {<<>>}
    ELSE LET shorter == SeqsUpTo(S, n - 1)
         IN  shorter \cup {Append(s, x) : s \in {t \in shorter : Len(t) = n - 1}, x \in S}

Chats == SeqsUpTo(MessagePool, MaxLen)

\* ---------------------------------------------------------- tokenization
RECURSIVE SplitFrom(_, _, _)
SplitFrom(text, i, cur) ==
    IF i > Len(text) THEN <<cur>>
    ELSE IF text[i] \in Separators
         THEN <<cur>> \o SplitFrom(text, i + 1, <<>>)
         ELSE SplitFrom(text, i + 1, Append(cur, text[i]))

\* entity.text.split([...]): the fragments between separators, empty ones too.
split(text) == SplitFrom(text, 1, <<>>)

is_not_emoji(x) == x \notin Emojis

remove_emojis(string) == SelectSeq(string, is_not_emoji)

NotEmpty(s) == s # <<>>

\* The tokens one entity yields, in order: split, drop empty fragments,
\* remove_emojis on each.  The entity's _type is not looked at.
EntityTokens(entity) ==
    LET frags == SelectSeq(split(entity.text), NotEmpty)
    IN  [j \in 1..Len(frags) |-> remove_emojis(frags[j])]

RECURSIVE MessageTokensFrom(_, _)
MessageTokensFrom(entities, j) ==
    IF j > Len(entities) THEN <<>>
    ELSE EntityTokens(entities[j]) \o MessageTokensFrom(entities, j + 1)

\* The tokens of a message, in the order of the two nested loops.
MessageTokens(message) == MessageTokensFrom(message.text_entities, 1)

\* ------------------------------------------------------ chunk aggregation
\* Variant: the old count is not added.
update_occurences_reset(token, map) == Insert(map, token, 1)

\* Variant: the 1 is not added.
update_occurences_keep(token, map) == Insert(map, token, GetOr0(map, token))

update_occurences(token, map) == Insert(map, token, GetOr0(map, token) + 1)

NewMaps == [tokens |-> EmptyMap, members |-> EmptyMap]

\* The body of the innermost loop for one token of a message of `from`.
CountToken(from, token, maps) ==
    [tokens  |-> update_occurences(token, maps.tokens),
     members |-> IF from \in DOMAIN maps.members
                 THEN Insert(maps.members, from, update_occurences(token, maps.members[from]))
                 ELSE Insert(maps.members, from, [t \in {token} |-> 1])]

RECURSIVE CountTokens(_, _, _, _)
CountTokens(from, toks, j, maps) ==
    IF j > Len(toks) THEN maps
    ELSE CountTokens(from, toks, j + 1, CountToken(from, toks[j], maps))

\* Variant: no filter.
IsCountedAll(message) == TRUE

\* The filter of the message iterator.
IsCounted(message) == message._type # "service"

\* Variant: the member's map is created before the token loop.
ProcessMessageEager(message, maps) ==
    LET from  == unwrap(message.from)
        start == IF from \in DOMAIN maps.members
                 THEN maps
                 ELSE [maps EXCEPT !.members = Insert(@, from, EmptyMap)]
    IN  CountTokens(from, MessageTokens(message), 1, start)

\* One iteration of the message loop on a message that passed the filter and
\* has an author.
ProcessMessage(message, maps) ==
    CountTokens(unwrap(message.from), MessageTokens(message), 1, maps)

\* ------------------------------------------------------------ partitioning
\* The outcome of an integer division by zero: a panic.
DivByZero == -1

\* Variant: a zero divisor is taken as 1.
CheckedDivDefault(a, b) == a \div (IF b = 0 THEN 1 ELSE b)

\* num_messages / jobs
CheckedDiv(a, b) == IF b = 0 THEN DivByZero ELSE a \div b

\* Variant: skip(i).
ChunkStartIndex(i, per_thread) == i

\* The argument of skip for worker i.
ChunkStart(i, per_thread) == i * per_thread

\* Variant: a chunk has at least one message.
ChunkTakeAtLeastOne(per_thread) == IF per_thread = 0 THEN 1 ELSE per_thread

\* The argument of take.
ChunkTake(per_thread) == per_thread

\* Variant: sync_channel(1).
ChannelCapacityOne(n) == 1

\* The bound of std::sync::mpsc::sync_channel(jobs).
ChannelCapacity(n) == n

\* ------------------------------------------------------------------ merge
\* Variant: the received count replaces the accumulated one.
MergeTokensOverwrite(acc, delta) ==
    [t \in (DOMAIN acc) \cup (DOMAIN delta) |->
        IF t \in DOMAIN delta THEN delta[t] ELSE acc[t]]

\* The loop over a received chunk_tokens_map (also the inner loop over the
\* map of a member that is already present).
MergeTokens(acc, delta) ==
    [t \in (DOMAIN acc) \cup (DOMAIN delta) |->
        IF t \in DOMAIN delta THEN GetOr0(acc, t) + delta[t] ELSE acc[t]]

\* Variant: the received map of a member replaces the accumulated one.
MergeMembersReplace(acc, delta) ==
    [m \in (DOMAIN acc) \cup (DOMAIN delta) |->
        IF m \in DOMAIN delta THEN delta[m] ELSE acc[m]]

\* Variant: a member already present keeps the accumulated map.
MergeMembersKeepOld(acc, delta) ==
    [m \in (DOMAIN acc) \cup (DOMAIN delta) |->
        IF m \in DOMAIN acc THEN acc[m] ELSE delta[m]]

\* The loop over a received chunk_members_tokens_map.
MergeMembers(acc, delta) ==
    [m \in (DOMAIN acc) \cup (DOMAIN delta) |->
        IF m \notin DOMAIN delta THEN acc[m]
        ELSE IF m \notin DOMAIN acc THEN delta[m]
        ELSE MergeTokens(acc[m], delta[m])]

\* Variant: num_tokens is the length of the per-member map.
StatsMembersLen(tokens, members) ==
    [num_tokens         |-> Cardinality(DOMAIN members),
     members_tokens_map |-> members,
     tokens_map         |-> tokens]

\* The value gather returns.
Stats(tokens, members) ==
    [num_tokens         |-> Cardinality(DOMAIN tokens),
     members_tokens_map |-> members,
     tokens_map         |-> tokens]

\* ------------------------------------------------------------------ state
VARIABLES
    chat,                     \* chat.messages (input)
    jobs,                     \* the jobs argument (input)
    pc,                       \* main thread: "start", "scope", "done", "panicked"
    num_messages,
    messages_per_thread,
    spawned,                  \* the i of the spawn loop
    wpc,                      \* per worker: "idle", "run", "sent", "panicked"
    wpos,                     \* per worker: items its iterator has yielded to the filter
    chunk_tokens_map,         \* per worker
    chunk_members_tokens_map, \* per worker
    channel,                  \* the buffer of the sync_channel
    received,                 \* iterations of the recv loop done
    tokens_map,
    members_tokens_map,
    result,                   \* Some(ChatStatistics) once gather has returned
    seen,                     \* history: per worker, the message indices it was given
    unwrapped,                \* history: the message indices whose `from` was unwrapped
    recv_order                \* history: the workers in the order their results were received

vars == <<chat, jobs, pc, num_messages, messages_per_thread, spawned, wpc, wpos,
          chunk_tokens_map, chunk_members_tokens_map, channel, received,
          tokens_map, members_tokens_map, result, seen, unwrapped, recv_order>>

Workers == 0..(jobs - 1)

Init ==
    /\ chat \in Chats
    /\ jobs \in 0..MaxJobs
    /\ pc = "start"
    /\ num_messages = 0
    /\ messages_per_thread = 0
    /\ spawned = 0
    /\ wpc = [i \in Workers |-> "idle"]
    /\ wpos = [i \in Workers |-> 0]
    /\ chunk_tokens_map = [i \in Workers |-> EmptyMap]
    /\ chunk_members_tokens_map = [i \in Workers |-> EmptyMap]
    /\ channel = <<>>
    /\ received = 0
    /\ tokens_map = EmptyMap
    /\ members_tokens_map = EmptyMap
    /\ result = None
    /\ seen = [i \in Workers |-> {}]
    /\ unwrapped = {}
    /\ recv_order = <<>>

\* Lines 130-137: the length, the division, the channel, the two empty maps.
Start ==
    /\ pc = "start"
    /\ num_messages' = Len(chat)
    /\ IF CheckedDiv(Len(chat), jobs) = DivByZero
       THEN pc' = "panicked" /\ UNCHANGED messages_per_thread
       ELSE pc' = "scope" /\ messages_per_thread' = CheckedDiv(Len(chat), jobs)
    /\ UNCHANGED <<chat, jobs, spawned, wpc, wpos, chunk_tokens_map,
                   chunk_members_tokens_map, channel, received, tokens_map,
                   members_tokens_map, result, seen, unwrapped, recv_order>>

\* One iteration of `for i in 0..jobs`: s.spawn.
Spawn ==
    /\ pc = "scope"
    /\ spawned < jobs
    /\ wpc' = [wpc EXCEPT ![spawned] = "run"]
    /\ spawned' = spawned + 1
    /\ UNCHANGED <<chat, jobs, pc, num_messages, messages_per_thread, wpos,
                   chunk_tokens_map, chunk_members_tokens_map, channel, received,
                   tokens_map, members_tokens_map, result, seen, unwrapped, recv_order>>

\* iter.skip(i * messages_per_thread).take(messages_per_thread) has a next item.
HasNext(i) ==
    /\ wpos[i] < ChunkTake(messages_per_thread)
    /\ ChunkStart(i, messages_per_thread) + wpos[i] < num_messages

\* The 0-based index of that item.
NextIndex(i) == ChunkStart(i, messages_per_thread) + wpos[i]

\* Worker i takes the next message of its iterator: filtered out if Service,
\* else the author is unwrapped (a panic if absent) and its tokens are counted.
WorkerStep(i) ==
    /\ i \in Workers
    /\ wpc[i] = "run"
    /\ HasNext(i)
    /\ LET idx     == NextIndex(i)
           message == chat[idx + 1]
       IN  /\ seen' = [seen EXCEPT ![i] = @ \cup {idx}]
           /\ wpos' = [wpos EXCEPT ![i] = @ + 1]
           /\ IF ~IsCounted(message)
              THEN UNCHANGED <<wpc, chunk_tokens_map, chunk_members_tokens_map, unwrapped>>
              ELSE /\ unwrapped' = unwrapped \cup {idx}
                   /\ IF is_none(message.from)
                      THEN /\ wpc' = [wpc EXCEPT ![i] = "panicked"]
                           /\ chunk_tokens_map' = [chunk_tokens_map EXCEPT ![i] = EmptyMap]
                           /\ chunk_members_tokens_map' =
                                  [chunk_members_tokens_map EXCEPT ![i] = EmptyMap]
                      ELSE LET maps == ProcessMessage(message,
                                           [tokens  |-> chunk_tokens_map[i],
                                            members |-> chunk_members_tokens_map[i]])
                           IN  /\ chunk_tokens_map' = [chunk_tokens_map EXCEPT ![i] = maps.tokens]
                               /\ chunk_members_tokens_map' =
                                      [chunk_members_tokens_map EXCEPT ![i] = maps.members]
                               /\ UNCHANGED wpc
    /\ UNCHANGED <<chat, jobs, pc, num_messages, messages_per_thread, spawned,
                   channel, received, tokens_map, members_tokens_map, result, recv_order>>

\* Line 163: the worker's loop is over, it sends (moves) its two maps.  The
\* `worker` field is history only.
WorkerSend(i) ==
    /\ i \in Workers
    /\ wpc[i] = "run"
    /\ ~HasNext(i)
    /\ Len(channel) < ChannelCapacity(jobs)
    /\ channel' = Append(channel, [tokens  |-> chunk_tokens_map[i],
                                   members |-> chunk_members_tokens_map[i],
                                   worker  |-> i])
    /\ wpc' = [wpc EXCEPT ![i] = "sent"]
    /\ chunk_tokens_map' = [chunk_tokens_map EXCEPT ![i] = EmptyMap]
    /\ chunk_members_tokens_map' = [chunk_members_tokens_map EXCEPT ![i] = EmptyMap]
    /\ UNCHANGED <<chat, jobs, pc, num_messages, messages_per_thread, spawned, wpos,
                   received, tokens_map, members_tokens_map, result, seen, unwrapped,
                   recv_order>>

\* Variant: the recv loop does not wait for the end of the spawn loop.
RecvEarly ==
    /\ pc = "scope"
    /\ received < jobs
    /\ channel # <<>>
    /\ LET got == Head(channel)
       IN  /\ tokens_map' = MergeTokens(tokens_map, got.tokens)
           /\ members_tokens_map' = MergeMembers(members_tokens_map, got.members)
           /\ recv_order' = Append(recv_order, got.worker)
    /\ channel' = Tail(channel)
    /\ received' = received + 1
    /\ UNCHANGED <<chat, jobs, pc, num_messages, messages_per_thread, spawned, wpc, wpos,
                   chunk_tokens_map, chunk_members_tokens_map, result, seen, unwrapped>>

\* One iteration of `for _ in 0..jobs`: receiver.recv() and the two merge
\* loops.  recv blocks while the buffer is empty: `sender` itself is alive
\* until gather ends, so the channel never disconnects.
Recv ==
    /\ pc = "scope"
    /\ spawned = jobs
    /\ received < jobs
    /\ channel # <<>>
    /\ LET got == Head(channel)
       IN  /\ tokens_map' = MergeTokens(tokens_map, got.tokens)
           /\ members_tokens_map' = MergeMembers(members_tokens_map, got.members)
           /\ recv_order' = Append(recv_order, got.worker)
    /\ channel' = Tail(channel)
    /\ received' = received + 1
    /\ UNCHANGED <<chat, jobs, pc, num_messages, messages_per_thread, spawned, wpc, wpos,
                   chunk_tokens_map, chunk_members_tokens_map, result, seen, unwrapped>>

\* Lines 186-191: the scope joins its threads (and panics if one of them
\* panicked), then the result is built.
Finish ==
    /\ pc = "scope"
    /\ spawned = jobs
    /\ received = jobs
    /\ \A i \in Workers : wpc[i] \in {"sent", "panicked"}
    /\ IF \E i \in Workers : wpc[i] = "panicked"
       THEN pc' = "panicked" /\ UNCHANGED result
       ELSE pc' = "done" /\ result' = Some(Stats(tokens_map, members_tokens_map))
    /\ UNCHANGED <<chat, jobs, num_messages, messages_per_thread, spawned, wpc, wpos,
                   chunk_tokens_map, chunk_members_tokens_map, channel, received,
                   tokens_map, members_tokens_map, seen, unwrapped, recv_order>>

Next ==
    \/ Start
    \/ Spawn
    \/ \E i \in Workers : WorkerStep(i)
    \/ \E i \in Workers : WorkerSend(i)
    \/ Recv
    \/ Finish

Spec == Init /\ [][Next]_vars

\* Every thread that can take a step eventually takes one.
FairSpec ==
    /\ Spec
    /\ WF_vars(Start)
    /\ WF_vars(Spawn)
    /\ \A i \in 0..(MaxJobs - 1) : WF_vars(WorkerStep(i)) /\ WF_vars(WorkerSend(i))
    /\ WF_vars(Recv)
    /\ WF_vars(Finish)

TypeOK ==
    /\ pc \in {"start", "scope", "done", "panicked"}
    /\ spawned \in 0..jobs
    /\ received \in 0..jobs
    /\ \A i \in Workers : wpc[i] \in {"idle", "run", "sent", "panicked"}
    /\ Len(channel) <= jobs

\* ------------------------------------------- gather as a sequential function
\* What the loop of one worker builds from the messages at the 0-based
\* indices idx .. stop-1 of msgs (all counted ones having an author).
RECURSIVE AggregateFrom(_, _, _, _)
AggregateFrom(msgs, idx, stop, maps) ==
    IF idx >= stop \/ idx >= Len(msgs) THEN maps
    ELSE AggregateFrom(msgs, idx + 1, stop,
                       IF IsCounted(msgs[idx + 1])
                       THEN ProcessMessage(msgs[idx + 1], maps)
                       ELSE maps)

\* The chunk results folded into the accumulators in the order i, i+1, .. n-1.
RECURSIVE MergeChunks(_, _, _, _, _)
MergeChunks(msgs, n, k, i, acc) ==
    IF i >= n THEN acc
    ELSE LET c == AggregateFrom(msgs, i * k, i * k + k, NewMaps)
         IN  MergeChunks(msgs, n, k, i + 1,
                         [tokens  |-> MergeTokens(acc.tokens, c.tokens),
                          members |-> MergeMembers(acc.members, c.members)])

\* The value gather(msgs, n) returns, n >= 1, when the results are received
\* in the order the workers were spawned.
GatherInOrder(msgs, n) ==
    LET m == MergeChunks(msgs, n, Len(msgs) \div n, 0, NewMaps)
    IN  Stats(m.tokens, m.members)

\* ------------------------------------------------------- auxiliary notions
Indices(msgs) == 0..(Len(msgs) - 1)

\* A Regular message without author.
Authorless(message) == message._type = "message" /\ is_none(message.from)

HasAuthorless(msgs) == \E x \in 1..Len(msgs) : Authorless(msgs[x])

AllService(msgs) == \A x \in 1..Len(msgs) : msgs[x]._type = "service"

RECURSIVE SumOverMembers(_, _, _)
SumOverMembers(S, members, t) ==
    IF S = {} THEN 0
    ELSE LET a == CHOOSE x \in S : TRUE
         IN  GetOr0(members[a], t) + SumOverMembers(S \ {a}, members, t)

KeysOfMembers(members) == UNION {DOMAIN members[a] : a \in DOMAIN members}

\* The indices [i*k, (i+1)*k) inside a list of `len` messages.
ChunkRange(i, k, len) == {x \in 0..(len - 1) : i * k <= x /\ x < (i + 1) * k}

\* The workers were not received in the order they were spawned.
OutOfOrder == \E x \in 1..Len(recv_order) : recv_order[x] # x - 1

\* Every meta entity with its text replaced by the empty text.
BlankMeta(msgs) ==
    [x \in 1..Len(msgs) |->
        [msgs[x] EXCEPT !.text_entities =
            [j \in 1..Len(@) |->
                IF @[j]._type \in MetaEntityTypes THEN Entity(@[j]._type, <<>>) ELSE @[j]]]]

\* Every Service message replaced by a Regular message without any entity.
ServiceAsSilent(msgs) ==
    [x \in 1..Len(msgs) |->
        IF msgs[x]._type = "service" THEN Msg("message", Some("A"), <<>>) ELSE msgs[x]]

WorkerPanicked == \E i \in Workers : wpc[i] = "panicked"

\* ------------------------------------------------------------------ claims

\* C1: in the returned statistics the global count of every token is the sum
\* of its counts in the per-member maps, and the keys of the global map are
\* the union of the keys of the per-member maps.
C1_GlobalIsSumOfMembers ==
    \A s \in result :
        /\ DOMAIN s.tokens_map = KeysOfMembers(s.members_tokens_map)
        /\ \A t \in (DOMAIN s.tokens_map) \cup KeysOfMembers(s.members_tokens_map) :
               GetOr0(s.tokens_map, t) =
                   SumOverMembers(DOMAIN s.members_tokens_map, s.members_tokens_map, t)

\* Two workers returned a token counted for both members, three times or more.
C1_Witness ==
    \E s \in result :
        /\ jobs = 2
        /\ DOMAIN s.members_tokens_map = {"A", "B"}
        /\ \E t \in DOMAIN s.tokens_map :
               /\ s.tokens_map[t] >= 3
               /\ \A a \in DOMAIN s.members_tokens_map : t \in DOMAIN s.members_tokens_map[a]

\* C2 (as claimed): whenever every Regular message has an author, gather with
\* any jobs >= 1 returns exactly what gather with one worker returns.
C2_SameAsSingleWorker ==
    \A s \in result :
        (jobs >= 1 /\ ~HasAuthorless(chat)) => s = GatherInOrder(chat, 1)

\* C3: when jobs is in 1..len and divides len, the returned global map is the
\* one a single worker returns, whatever the interleaving and receive order.
C3_DivisorJobsSameGlobal ==
    \A s \in result :
        (jobs \in 1..Len(chat) /\ Len(chat) % jobs = 0)
            => s.tokens_map = GatherInOrder(chat, 1).tokens_map

\* Two chunks of two messages, received out of spawn order, sharing a token.
C3_Witness ==
    \E s \in result :
        /\ jobs = 2
        /\ Len(chat) = 4
        /\ OutOfOrder
        /\ \E t \in DOMAIN s.tokens_map : s.tokens_map[t] >= 2

\* C4: with k = floor(len / jobs), worker i is given exactly the messages at
\* [i*k, (i+1)*k): jobs contiguous disjoint chunks of size k; the messages
\* at indices >= jobs*k are given to no worker and the returned statistics
\* are those of the first jobs*k messages alone.
C4_Partition ==
    /\ pc = "start" => \A i \in Workers : seen[i] = {}
    /\ (pc # "start" /\ jobs >= 1) =>
         LET k == Len(chat) \div jobs
         IN  /\ messages_per_thread = k
             /\ \A i \in Workers :
                    /\ seen[i] \subseteq ChunkRange(i, k, Len(chat))
                    /\ \A x \in seen[i] : x < jobs * k
                    /\ wpc[i] = "sent" =>
                           /\ seen[i] = ChunkRange(i, k, Len(chat))
                           /\ Cardinality(seen[i]) = k
             /\ \A i \in Workers : \A j \in Workers :
                    i # j => seen[i] \cap seen[j] = {}
             /\ \A s \in result :
                    /\ DOMAIN wpc = 0..(jobs - 1)
                    /\ \A i \in Workers : wpc[i] = "sent"
                    /\ s = GatherInOrder(SubSeq(chat, 1, jobs * k), 1)

\* Three messages, two workers: the third, which has tokens, is left out.
C4_Witness ==
    /\ result # None
    /\ jobs = 2
    /\ Len(chat) = 3
    /\ seen[0] = {0}
    /\ seen[1] = {1}
    /\ IsCounted(chat[3])
    /\ MessageTokens(chat[3]) # <<>>

\* C5: for a fixed chat and jobs, whatever the order in which the workers
\* finish and their results are received, the returned statistics are the
\* ones obtained by folding the chunk results in spawn order.
C5_OrderIndependent ==
    \A s \in result : s = GatherInOrder(chat, jobs)

\* Results received out of spawn order, and one member's count added up.
C5_Witness ==
    \E s \in result :
        /\ OutOfOrder
        /\ Cardinality(DOMAIN s.tokens_map) >= 2
        /\ \E a \in DOMAIN s.members_tokens_map :
               /\ \E t \in DOMAIN s.members_tokens_map[a] : s.members_tokens_map[a][t] >= 2

\* C6 (as claimed): a chat with a Regular message without author never makes
\* gather return statistics, wherever that message is.
C6_AuthorlessNeverReturns ==
    (jobs >= 1 /\ HasAuthorless(chat)) => result = None

\* C7 (as claimed): once a worker has panicked on a missing author, gather
\* eventually terminates as failed.
C7_PanicLeadsToAbort ==
    WorkerPanicked ~> (pc = "panicked")

\* C8: with jobs = 0 gather panics at the division: no worker is spawned, no
\* message is looked at, nothing is sent or merged, no statistics are
\* returned, and no chunk size is ever computed for another worker count.
C8_ZeroJobsRejected ==
    jobs = 0 =>
        /\ pc \in {"start", "panicked"}
        /\ spawned = 0
        /\ messages_per_thread = 0
        /\ DOMAIN wpc = {}
        /\ unwrapped = {}
        /\ channel = <<>>
        /\ received = 0
        /\ tokens_map = EmptyMap
        /\ result = None

\* gather(chat, 0) on a chat with messages has panicked.
C8_Witness ==
    /\ jobs = 0
    /\ Len(chat) >= 1
    /\ num_messages = Len(chat)
    /\ pc = "panicked"

\* C9 (as claimed): the returned statistics are those of the chat in which
\* every Phone, BotCommand, Email, CustomEmoji and Mention entity has an
\* empty text.
C9_MetaSegmentsIgnored ==
    \A s \in result : s = GatherInOrder(BlankMeta(chat), jobs)

\* C10: the author of a Service message is never unwrapped; the returned
\* statistics are those of the chat in which every Service message is
\* replaced by a message without text; a chat of Service messages only makes
\* no worker panic and returns num_tokens = 0 and two empty maps.
C10_ServiceExcluded ==
    /\ \A x \in unwrapped : chat[x + 1]._type # "service"
    /\ \A s \in result : s = GatherInOrder(ServiceAsSilent(chat), jobs)
    /\ (jobs >= 1 /\ AllService(chat)) =>
           /\ ~WorkerPanicked
           /\ pc # "panicked"
           /\ tokens_map = EmptyMap
           /\ members_tokens_map = EmptyMap
           /\ \A s \in result :
                  /\ s.num_tokens = 0
                  /\ s.tokens_map = EmptyMap
                  /\ s.members_tokens_map = EmptyMap

\* Two workers went through Service messages only and gather returned.
C10_Witness ==
    /\ result # None
    /\ jobs = 2
    /\ Len(chat) = 4
    /\ AllService(chat)
    /\ seen[0] = {0, 1}
    /\ seen[1] = {2, 3}

\* The separator set the specification gives for the tokenizer.
SpecSeparators == Separators \cup {"-", "!", "?"}

AllPositive(map) == \A k \in DOMAIN map : map[k] >= 1

MembersPositive(members) == \A a \in DOMAIN members : AllPositive(members[a])

\* C11 (as claimed): the empty string is never a key of the returned global
\* map or of a returned per-member map.
C11_EmptyTokenDiscarded ==
    \A s \in result :
        /\ <<>> \notin DOMAIN s.tokens_map
        /\ \A a \in DOMAIN s.members_tokens_map : <<>> \notin DOMAIN s.members_tokens_map[a]

\* C12 (as claimed): no token of the returned maps contains a space, comma,
\* period, parenthesis, hyphen, '!', '?', apostrophe, quote, newline or tab.
C12_NoSeparatorInToken ==
    \A s \in result :
        \A t \in (DOMAIN s.tokens_map) \cup KeysOfMembers(s.members_tokens_map) :
            \A j \in 1..Len(t) : t[j] \notin SpecSeparators

\* C13: every count is >= 1 in the accumulators after each merge, in every
\* worker's maps and in the maps it sent, and in the returned maps.
C13_CountsPositive ==
    /\ AllPositive(tokens_map)
    /\ MembersPositive(members_tokens_map)
    /\ \A i \in Workers :
           AllPositive(chunk_tokens_map[i]) /\ MembersPositive(chunk_members_tokens_map[i])
    /\ \A x \in 1..Len(channel) :
           AllPositive(channel[x].tokens) /\ MembersPositive(channel[x].members)
    /\ \A s \in result :
           AllPositive(s.tokens_map) /\ MembersPositive(s.members_tokens_map)

\* Two results were merged and a count above 1 was returned.
C13_Witness ==
    \E s \in result :
        /\ jobs = 2
        /\ received = 2
        /\ \E t \in DOMAIN s.tokens_map : s.tokens_map[t] >= 2
        /\ \E a \in DOMAIN s.members_tokens_map :
               \E t \in DOMAIN s.members_tokens_map[a] : s.members_tokens_map[a][t] >= 2

\* C14: the returned num_tokens is the number of keys of the returned global
\* map, which is the accumulator after all jobs results have been merged.
C14_NumTokens ==
    \A s \in result :
        /\ s.num_tokens = Cardinality(DOMAIN s.tokens_map)
        /\ received = jobs
        /\ channel = <<>>
        /\ s.tokens_map = tokens_map
        /\ s.num_tokens = Cardinality(DOMAIN GatherInOrder(chat, jobs).tokens_map)

\* Two workers, three distinct tokens or more, one of them counted twice.
C14_Witness ==
    \E s \in result :
        /\ jobs = 2
        /\ s.num_tokens >= 3
        /\ \E t \in DOMAIN s.tokens_map : s.tokens_map[t] >= 2

\* C15 (as claimed): no chunk result is merged while a worker is still
\* aggregating its chunk.
C15_MergeAfterAllWorkers ==
    received >= 1 => \A i \in Workers : wpc[i] \in {"sent", "panicked"}

\* C15 (amended): a chunk result is merged only after all jobs workers have
\* been spawned and after the worker that produced it has finished its chunk
\* and sent it; the statistics are built only after every worker has sent
\* and every result has been merged.
C15_MergeAfterSpawnAndSend ==
    /\ received >= 1 => spawned = jobs
    /\ \A x \in 1..Len(recv_order) : wpc[recv_order[x]] = "sent"
    /\ \A x \in 1..Len(channel) : wpc[channel[x].worker] = "sent"
    /\ \A s \in result :
           /\ received = jobs
           /\ \A i \in Workers : wpc[i] = "sent"

\* A result with tokens has been merged while a worker is inside its chunk.
C15_Witness ==
    /\ received = 1
    /\ tokens_map # EmptyMap
    /\ \E i \in Workers : wpc[i] = "run" /\ wpos[i] = 1 /\ HasNext(i)

\* C16: one merge step adds the received count of every received token to
\* the accumulated count (0 if absent) and leaves every other token alone;
\* a received member absent from the accumulator gets the received map as
\* is, a present one gets the same per-token addition, and every member not
\* received keeps their map.
C16_MergeStep ==
    [][received' = received + 1 =>
        LET got == Head(channel)
        IN  /\ DOMAIN tokens_map' = (DOMAIN tokens_map) \cup (DOMAIN got.tokens)
            /\ \A t \in DOMAIN got.tokens :
                   tokens_map'[t] = GetOr0(tokens_map, t) + got.tokens[t]
            /\ \A t \in (DOMAIN tokens_map) \ (DOMAIN got.tokens) :
                   tokens_map'[t] = tokens_map[t]
            /\ DOMAIN members_tokens_map' =
                   (DOMAIN members_tokens_map) \cup (DOMAIN got.members)
            /\ \A a \in (DOMAIN got.members) \ (DOMAIN members_tokens_map) :
                   members_tokens_map'[a] = got.members[a]
            /\ \A a \in (DOMAIN got.members) \cap (DOMAIN members_tokens_map) :
                   /\ DOMAIN members_tokens_map'[a] =
                          (DOMAIN members_tokens_map[a]) \cup (DOMAIN got.members[a])
                   /\ \A t \in DOMAIN got.members[a] :
                          members_tokens_map'[a][t] =
                              GetOr0(members_tokens_map[a], t) + got.members[a][t]
                   /\ \A t \in (DOMAIN members_tokens_map[a]) \ (DOMAIN got.members[a]) :
                          members_tokens_map'[a][t] = members_tokens_map[a][t]
            /\ \A a \in (DOMAIN members_tokens_map) \ (DOMAIN got.members) :
                   members_tokens_map'[a] = members_tokens_map[a]
    ]_vars

\* Two two-message chunks were merged: member A, present in both, has a
\* count that no single chunk can hold, and member B is there too.
C16_Witness ==
    /\ jobs = 2
    /\ received = 2
    /\ messages_per_thread = 2
    /\ DOMAIN members_tokens_map = {"A", "B"}
    /\ \E t \in DOMAIN members_tokens_map["A"] : members_tokens_map["A"][t] >= 3
    /\ \E t \in DOMAIN tokens_map : tokens_map[t] >= 4

\* C17: when jobs exceeds the number of messages the chunk size is 0, no
\* worker is given a message or unwraps an author, every worker sends two
\* empty maps, nothing panics or blocks, and the statistics returned are
\* num_tokens = 0 with two empty maps.
C17_MoreJobsThanMessages ==
    (jobs > Len(chat) /\ pc # "start") =>
        /\ messages_per_thread = 0
        /\ unwrapped = {}
        /\ \A i \in Workers :
               /\ seen[i] = {}
               /\ wpos[i] = 0
               /\ wpc[i] # "panicked"
               /\ chunk_tokens_map[i] = EmptyMap
               /\ chunk_members_tokens_map[i] = EmptyMap
        /\ \A x \in 1..Len(channel) :
               channel[x].tokens = EmptyMap /\ channel[x].members = EmptyMap
        /\ tokens_map = EmptyMap
        /\ members_tokens_map = EmptyMap
        /\ pc # "panicked"
        /\ pc = "done" \/ ENABLED Next
        /\ \A s \in result :
               /\ Len(recv_order) = jobs
               /\ s.num_tokens = 0
               /\ s.tokens_map = EmptyMap
               /\ s.members_tokens_map = EmptyMap

\* Two workers, one Regular message without author: gather has returned.
C17_Witness ==
    /\ result # None
    /\ jobs = 2
    /\ Len(chat) = 1
    /\ Authorless(chat[1])
    /\ received = 2

\* The workers that have sent their result.
Senders == {i \in Workers : wpc[i] = "sent"}

\* C18: when every Regular message has an author and jobs >= 1, gather
\* terminates under fair scheduling with all jobs results received; a worker
\* that is ready to send always finds room in the channel, which never holds
\* more than jobs results; each worker sends one result; and the statistics,
\* once built, are never built again.
C18_Terminates ==
    /\ [](\A i \in Workers :
              (wpc[i] = "run" /\ ~HasNext(i)) => Len(channel) < ChannelCapacity(jobs))
    /\ [](Len(channel) <= jobs)
    /\ [](Cardinality(Senders) = Len(channel) + received)
    /\ [][result # None => result' = result]_vars
    /\ (jobs >= 1 /\ ~HasAuthorless(chat)) ~>
           (pc = "done" /\ result # None /\ received = jobs /\ Senders = Workers)

\* Two workers with two messages each have sent, both results were received
\* and gather has returned.
C18_Witness ==
    /\ pc = "done"
    /\ jobs = 2
    /\ messages_per_thread = 2
    /\ ~HasAuthorless(chat)
    /\ received = 2
    /\ Senders = {0, 1}
    /\ tokens_map # EmptyMap

\* The authors of the counted messages among the first n of msgs for which
\* the token loop runs at least once.
AuthorsWithTokens(msgs, n) ==
    {unwrap(msgs[x].from) :
        x \in {y \in 1..n : IsCounted(msgs[y]) /\ MessageTokens(msgs[y]) # <<>>}}

NoEmptyMember(members) == \A a \in DOMAIN members : DOMAIN members[a] # {}

\* C19: the keys of the returned per-member map are exactly the authors of
\* the processed Regular messages for which a token was counted; no member,
\* in the returned map or in any map on the way to it, has an empty map.
C19_MembersHaveTokens ==
    /\ NoEmptyMember(members_tokens_map)
    /\ \A i \in Workers : NoEmptyMember(chunk_members_tokens_map[i])
    /\ \A x \in 1..Len(channel) : NoEmptyMember(channel[x].members)
    /\ \A s \in result :
           /\ NoEmptyMember(s.members_tokens_map)
           /\ DOMAIN s.members_tokens_map =
                  AuthorsWithTokens(chat, jobs * (Len(chat) \div jobs))

\* A processed Regular message of B holds separators only: B is no key of
\* the returned map, A is.
C19_Witness ==
    \E s \in result :
        /\ DOMAIN s.members_tokens_map = {"A"}
        /\ \E i \in Workers : \E x \in seen[i] :
               /\ IsCounted(chat[x + 1])
               /\ chat[x + 1].from = Some("B")
               /\ chat[x + 1].text_entities # <<>>
               /\ MessageTokens(chat[x + 1]) = <<>>

====
